---- MODULE Spec2Model ----
(***************************************************************************)
(* Neurodrive: fault detection and self-healing decision engine.           *)
(*                                                                         *)
(* The module models the two engine variants of the repository:            *)
(*   - neuro_brain.py: NeuralEngine, SymbolicEngine and the monitoring     *)
(*     loop of start_neurodrive;                                           *)
(*   - dashboard.py:   NeuroBrain.process_telemetry and send_command.      *)
(*                                                                         *)
(* Units.  The code compares floats against decimal thresholds.  The model *)
(* keeps the same comparisons on scaled integers: a speed is counted in    *)
(* tenths of km/h (1.0 -> 10, 5.0 -> 50, 20.0 -> 200) and a vibration in   *)
(* thousandths (0.02 -> 20, 0.05 -> 50, 0.1 -> 100).                       *)
(***************************************************************************)
EXTENDS Integers, Sequences, FiniteSets, TLC

VARIABLES
    variant,            \* which program owns the ingress port: "brain" | "dash"
    pc,                 \* position of start_neurodrive: "calib" | "drain" |
                        \*   "inject" | "train" | "monitor"
    queue,              \* datagrams queued on the ingress socket (oldest first)
    fault_counter,      \* SymbolicEngine.fault_counter
    last_valid_speed,   \* SymbolicEngine.last_valid_speed
    is_trained,         \* NeuralEngine.is_trained
    anomaly_counter,    \* NeuralEngine.anomaly_counter
    healing_triggered,  \* start_neurodrive's latch
    latest_packet,      \* NeuroBrain.latest_packet (dashboard)
    alert_status,       \* NeuroBrain.alert_status (dashboard)
    healing_active,     \* NeuroBrain.healing_active (dashboard)
    tick,               \* what the most recent step did, when it was a poll
    rule_obs,           \* the most recent direct call of check_safety_rules
    neural_obs,         \* the most recent direct call of detect_anomaly
    paradoxRun,         \* history: consecutive paradox samples since counter 0
    scn,                \* history: progress through the deceleration scenario
    consecOut,          \* history: consecutive outlier-scored calls
    outsSinceReset,     \* history: outlier-scored calls since the last reset
    healsInLatch,       \* history: HEAL commands sent since the latch was set
    rt,                 \* history: the recovery round trips in progress
    training_data,      \* start_neurodrive's calibration set
    latest_data,        \* the calibration drain's latest_data: <<>> for None, else <<datagram>>
    elapsed,            \* calibration passes slept through so far
    tpc,                \* dashboard telemetry thread: "poll" | "send" | "set"
    bpc,                \* dashboard script run: "idle" | "clear"
    hist                \* history kept for the coordinator's claims

vars == <<variant, pc, queue, fault_counter, last_valid_speed, is_trained,
          anomaly_counter, healing_triggered, latest_packet, alert_status,
          healing_active, tick, rule_obs, neural_obs, paradoxRun, scn,
          consecOut, outsSinceReset, healsInLatch, rt, training_data,
          latest_data, elapsed, tpc, bpc, hist>>

brainVars == <<fault_counter, last_valid_speed, is_trained, anomaly_counter,
               healing_triggered>>
dashVars == <<latest_packet, alert_status, healing_active>>
ruleHist == <<rule_obs, paradoxRun, scn>>
neuralHist == <<neural_obs, consecOut, outsSinceReset>>
loopHist == <<healsInLatch, rt, hist>>
calibVars == <<training_data, latest_data, elapsed>>
threadVars == <<tpc, bpc>>
auxVars == <<calibVars, threadVars>>

----------------------------------------------------------------------------
(* Bounds of the model *)

MaxQueue == 5       \* datagrams the ingress socket holds in the drain model
LoopQueue == 1      \* datagrams the ingress socket holds in the loop model
MaxFault == 5       \* ticks are cut off once fault_counter would pass this
MaxAnomaly == 12    \* ticks are cut off once anomaly_counter would pass this
CalibPasses == 6     \* passes of the calibration loop before its 10 s are up
CalibQueue == 2      \* datagrams the ingress socket holds during calibration

(* Program constants (scaled, see Units) *)

StoppedSpeed == 10          \* 1.0
ParadoxVib == 50            \* 0.05
CruiseSpeed == 200          \* 20.0
RuleThreshold == 3
LowSpeedGate == 50          \* 5.0
LowVibGate == 100           \* 0.1
AnomalyThreshold == 10
RecoverySpeed == 50         \* 5.0
DashParadoxVib == 20        \* 0.02
MinTrainingSet == 5

None == "None"
CRITICAL == "CRITICAL: Wheel Speed Sensor Failure (Signal Loss)"
HEALED == "HEALED (VIRTUAL_SENSOR)"

Min(a, b) == IF a < b THEN a ELSE b
Max(a, b) == IF a > b THEN a ELSE b

----------------------------------------------------------------------------
(* SymbolicEngine (neuro_brain.py) *)

\* RULE 1: stopped but vibrating
Paradox(speed, vibration) == speed < StoppedSpeed /\ vibration > ParadoxVib

\* RULE 2: instant stop from cruising speed
ImpossibleStop(lvs, speed) == lvs > CruiseSpeed /\ speed < StoppedSpeed

NextLastValidAlways(lvs, speed) == speed
\* last_valid_speed is overwritten only by a speed above 1.0
NextLastValid(lvs, speed) == IF speed > StoppedSpeed THEN speed ELSE lvs

NextFaultCounterKeep(fc, speed, paradox, impossible_stop) ==
    IF speed > StoppedSpeed THEN 0
    ELSE IF paradox \/ impossible_stop THEN fc + 1
    ELSE fc

\* lines 74-81
NextFaultCounter(fc, speed, paradox, impossible_stop) ==
    IF speed > StoppedSpeed THEN 0
    ELSE IF paradox \/ impossible_stop THEN fc + 1
    ELSE 0

RuleVerdictEarly(fc) == IF fc >= RuleThreshold THEN CRITICAL ELSE None
RuleVerdict(fc) == IF fc > RuleThreshold THEN CRITICAL ELSE None

\* one call of check_safety_rules: the new engine state and the return value
CheckSafetyRules(fc, lvs, speed, vibration) ==
    LET paradox == Paradox(speed, vibration)
        impossible_stop == ImpossibleStop(lvs, speed)
        fc2 == NextFaultCounter(fc, speed, paradox, impossible_stop)
    IN  [fault_counter |-> fc2,
         last_valid_speed |-> NextLastValid(lvs, speed),
         paradox |-> paradox,
         impossible_stop |-> impossible_stop,
         ret |-> RuleVerdict(fc2)]

----------------------------------------------------------------------------
(* NeuralEngine (neuro_brain.py) *)

(* The fitted IsolationForest is a black box: its answer to one query is an
   input of the call, "outlier" (predict gives -1), "inlier" (predict gives
   1) or "error" (predict raises).  The scale factors set by train are
   positive by construction and only feed the query. *)
Verdicts == {"outlier", "inlier", "error"}

\* train: is_trained becomes true only when fit does not raise
TrainResult(trained, fitOK) == IF fitOK THEN TRUE ELSE trained

\* LOGIC GATE: stopped or moving slowly
LowSpeedExempt(speed, vibration) ==
    speed < LowSpeedGate /\ vibration < LowVibGate

ExemptCounterKeep(ac) == ac
\* the gate resets the counter
ExemptCounter(ac) == 0

AnomalyUpdate(ac, is_anomaly) ==
    IF is_anomaly THEN ac + 1 ELSE Max(0, ac - 1)

AnomalyVerdictEarly(ac) == ac >= AnomalyThreshold
AnomalyVerdict(ac) == ac > AnomalyThreshold

QueryFailedAlarm(ac) == [anomaly_counter |-> ac + 1, ret |-> TRUE]
\* except: return False
QueryFailed(ac) == [anomaly_counter |-> ac, ret |-> FALSE]

\* one call of detect_anomaly: the new counter, what was asked of the model
\* and the return value
DetectAnomaly(trained, ac, speed, vibration, verdict) ==
    IF ~trained
    THEN [anomaly_counter |-> ac, query |-> "untrained", ret |-> FALSE]
    ELSE IF LowSpeedExempt(speed, vibration)
    THEN [anomaly_counter |-> ExemptCounter(ac), query |-> "exempt",
          ret |-> FALSE]
    ELSE IF verdict = "error"
    THEN [anomaly_counter |-> QueryFailed(ac).anomaly_counter,
          query |-> "error", ret |-> QueryFailed(ac).ret]
    ELSE LET ac2 == AnomalyUpdate(ac, verdict = "outlier")
         IN  [anomaly_counter |-> ac2, query |-> verdict,
              ret |-> AnomalyVerdict(ac2)]

----------------------------------------------------------------------------
(* Initial state and the records of what a step did *)

NoTick ==
    [kind |-> "none", drained |-> <<>>, delivered |-> <<>>,
     rule_fault |-> None, neural_fault |-> FALSE, query |-> "none",
     cmds |-> <<>>]

NoRuleObs ==
    [called |-> FALSE, speed |-> 0, vibration |-> 0, before |-> 0,
     paradox |-> FALSE, impossible_stop |-> FALSE, ret |-> None]

NoNeuralObs ==
    [called |-> FALSE, speed |-> 0, vibration |-> 0, before |-> 0,
     would |-> "inlier", query |-> "none", ret |-> FALSE]

NoHist ==
    [lastFail |-> "none", healedSince |-> FALSE, goodRun |-> 0,
     rearmed |-> FALSE, episode |-> "none", closed |-> "none",
     slowRun |-> 0, lastEmitted |-> "none", heals |-> 0,
     pressed |-> FALSE, calm |-> FALSE]

\* the state after the constructors (NeuralEngine.__init__,
\* SymbolicEngine.__init__, NeuroBrain.__init__, healing_triggered = False)
Constructed ==
    /\ queue = <<>>
    /\ fault_counter = 0
    /\ last_valid_speed = 0
    /\ is_trained = FALSE
    /\ anomaly_counter = 0
    /\ healing_triggered = FALSE
    /\ latest_packet = [speed |-> 0, vibration |-> 0, status |-> "OFFLINE"]
    /\ alert_status = "System Normal"
    /\ healing_active = FALSE
    /\ tick = NoTick
    /\ rule_obs = NoRuleObs
    /\ neural_obs = NoNeuralObs
    /\ paradoxRun = 0
    /\ scn = 0
    /\ consecOut = 0
    /\ outsSinceReset = 0
    /\ healsInLatch = 0
    /\ rt = {}
    /\ training_data = <<>>
    /\ latest_data = <<>>
    /\ elapsed = 0
    /\ tpc = "poll"
    /\ bpc = "idle"
    /\ hist = NoHist

----------------------------------------------------------------------------
(* SymbolicEngine on its own: any caller, any sample sequence *)

Speeds == {0, 2, 10, 30, 50, 200, 250}
Vibs == {0, 1, 50, 60, 100}

\* speeds [25,25,25,0.2,0.2,0.2,0.2] with vibration 0.06 on every tick
Scenario == << <<250, 60>>, <<250, 60>>, <<250, 60>>, <<2, 60>>,
               <<2, 60>>, <<2, 60>>, <<2, 60>> >>

InitRules ==
    /\ variant = "brain"
    /\ pc = "monitor"
    /\ Constructed

RuleCall(speed, vibration) ==
    LET r == CheckSafetyRules(fault_counter, last_valid_speed, speed, vibration)
    IN  /\ r.fault_counter <= MaxFault
        /\ fault_counter' = r.fault_counter
        /\ last_valid_speed' = r.last_valid_speed
        /\ rule_obs' = [called |-> TRUE, speed |-> speed,
                        vibration |-> vibration, before |-> fault_counter,
                        paradox |-> r.paradox,
                        impossible_stop |-> r.impossible_stop, ret |-> r.ret]
        /\ paradoxRun' =
              IF speed < 10 /\ vibration > 50
              THEN IF paradoxRun >= 1 THEN Min(paradoxRun + 1, MaxFault + 1)
                   ELSE IF fault_counter = 0 THEN 1 ELSE 0
              ELSE 0
        /\ scn' = IF scn >= 0 /\ scn < Len(Scenario)
                     /\ Scenario[scn + 1] = <<speed, vibration>>
                  THEN scn + 1 ELSE -1
        /\ UNCHANGED <<variant, pc, queue, is_trained, anomaly_counter,
                       healing_triggered, dashVars, tick, neuralHist, loopHist,
                       auxVars>>

NextRules == \E speed \in Speeds, vibration \in Vibs : RuleCall(speed, vibration)

SpecRules == InitRules /\ [][NextRules]_vars

\* C3: from fault_counter = 0, four consecutive samples with speed < 1.0 and
\* vibration > 0.05 give None on the first three and CRITICAL on the fourth;
\* CRITICAL is returned exactly when fault_counter > 3 after the update.
C3_RuleHysteresis ==
    rule_obs.called =>
        /\ (paradoxRun \in 1..3 => rule_obs.ret = None)
        /\ (paradoxRun = 4 => rule_obs.ret = CRITICAL)
        /\ (rule_obs.ret = CRITICAL <=> fault_counter > 3)

C3_Witness ==
    /\ rule_obs.called
    /\ paradoxRun = 4
    /\ rule_obs.ret = CRITICAL

\* C4: on a fresh engine fed speeds [25,25,25,0.2,0.2,0.2,0.2] with vibration
\* 0.06, the impossible-deceleration rule fires on ticks 4 to 7 and not on
\* ticks 1 to 3, last_valid_speed stays 25 from tick 1 on, and CRITICAL is
\* returned on tick 7 and on no earlier tick.
C4_DecelerationScenario ==
    /\ (scn \in 1..3 => /\ ~rule_obs.impossible_stop
                        /\ rule_obs.ret = None)
    /\ (scn \in 4..6 => /\ rule_obs.impossible_stop
                        /\ rule_obs.ret = None)
    /\ (scn = 7 => /\ rule_obs.impossible_stop
                   /\ rule_obs.ret = CRITICAL)
    /\ (scn \in 1..7 => last_valid_speed = 250)

C4_Witness ==
    /\ scn = 7
    /\ rule_obs.ret = CRITICAL
    /\ rule_obs.impossible_stop

----------------------------------------------------------------------------
(* NeuralEngine on its own: train once, then any sample sequence *)

InitNeural ==
    /\ variant = "brain"
    /\ pc = "train"
    /\ Constructed

\* brain.train(training_data): fit succeeds or raises
Train(fitOK) ==
    /\ variant = "brain"
    /\ pc = "train"
    /\ is_trained' = TrainResult(is_trained, fitOK)
    /\ pc' = "monitor"
    /\ UNCHANGED <<variant, queue, fault_counter, last_valid_speed,
                   anomaly_counter, healing_triggered, dashVars, tick,
                   ruleHist, neuralHist, loopHist, auxVars>>

DetectCall(speed, vibration, verdict) ==
    LET n == DetectAnomaly(is_trained, anomaly_counter, speed, vibration,
                           verdict)
    IN  /\ pc = "monitor"
        /\ n.anomaly_counter <= MaxAnomaly
        /\ anomaly_counter' = n.anomaly_counter
        /\ neural_obs' = [called |-> TRUE, speed |-> speed,
                          vibration |-> vibration, before |-> anomaly_counter,
                          would |-> verdict, query |-> n.query, ret |-> n.ret]
        /\ consecOut' =
              CASE n.query = "outlier" -> Min(consecOut + 1, MaxAnomaly)
                [] n.query = "error" -> consecOut
                [] OTHER -> 0
        /\ outsSinceReset' =
              CASE n.query = "outlier" -> Min(outsSinceReset + 1, MaxAnomaly)
                [] n.query = "exempt" -> 0
                [] OTHER -> outsSinceReset
        /\ UNCHANGED <<variant, pc, queue, fault_counter, last_valid_speed,
                       is_trained, healing_triggered, dashVars, tick,
                       ruleHist, loopHist, auxVars>>

NextNeural ==
    \/ \E fitOK \in BOOLEAN : Train(fitOK)
    \/ \E speed \in Speeds, vibration \in Vibs, verdict \in Verdicts :
          DetectCall(speed, vibration, verdict)

SpecNeural == InitNeural /\ [][NextNeural]_vars

\* C5 as claimed: detect_anomaly returns true only when the 11 most recent
\* scored ticks were all scored as outliers.
C5_Original ==
    (neural_obs.called /\ neural_obs.ret) => consecOut >= 11

\* C5 amended: detect_anomaly returns true only once at least 11 ticks have
\* been scored as outliers since the counter was last reset (by the low-speed
\* gate, or since construction), so a single outlier-scored sample never
\* makes it return true; the 11 need not be consecutive, because an
\* inlier-scored tick lowers the counter by one and does not reset it.
C5_AnomalyHysteresis ==
    /\ (neural_obs.called /\ neural_obs.ret) => outsSinceReset >= 11
    /\ (neural_obs.called /\ neural_obs.query = "inlier")
           => anomaly_counter = Max(0, neural_obs.before - 1)

C5_Witness ==
    /\ neural_obs.called
    /\ neural_obs.ret
    /\ outsSinceReset >= 11
    /\ consecOut < 11

\* C6: on a trained detector every call with speed < 5.0 and vibration < 0.1
\* returns false and leaves anomaly_counter at 0, whatever the model would
\* answer and whatever the counter was before.
C6_LowSpeedExemption ==
    (neural_obs.called /\ is_trained
       /\ neural_obs.speed < 50 /\ neural_obs.vibration < 100)
    => (neural_obs.ret = FALSE /\ anomaly_counter = 0)

C6_Witness ==
    /\ neural_obs.called
    /\ is_trained
    /\ neural_obs.speed = 0
    /\ neural_obs.vibration = 1
    /\ neural_obs.before > 10
    /\ neural_obs.would = "outlier"
    /\ neural_obs.ret = FALSE
    /\ anomaly_counter = 0

----------------------------------------------------------------------------
(* Telemetry ingress: datagrams, the non-blocking drain, JSON parsing *)

(* A datagram is a record.  A parsable one is the JSON object it carries
   (its fields are its keys); Malformed stands for bytes json.loads rejects. *)
Malformed == [malformed |-> TRUE]
Parsable(d) == "malformed" \notin DOMAIN d

Pkt(s, v, st) == [speed |-> s, vibration |-> v, status |-> st]

\* dict.get(key, default)
Get(packet, key, default) ==
    IF key \in DOMAIN packet THEN packet[key] ELSE default

DrainFirst(q) == q[1]
\* the inner recvfrom loop: every datagram overwrites the one before, the
\* last one received is what is left when BlockingIOError ends the loop
DrainLatest(q) == q[Len(q)]

\* neuro_brain.py: the fields of a parsed packet, with aliases and defaults
BrainSample(packet) ==
    [speed |-> Get(packet, "speed", Get(packet, "wheel_speed_fl", 0)),
     vibration |-> Get(packet, "vibration", Get(packet, "vibration_level", 0)),
     status |-> Get(packet, "status", "UNKNOWN")]

\* a datagram arrives on the ingress socket
Arrive(p, bound) ==
    /\ Len(queue) < bound
    /\ queue' = Append(queue, p)
    /\ tick' = NoTick
    /\ UNCHANGED <<variant, pc, brainVars, dashVars, ruleHist, neuralHist,
                   loopHist, auxVars>>

----------------------------------------------------------------------------
(* start_neurodrive: one pass of the monitoring loop *)

Cmd(type, value1, ok) == [type |-> type, value1 |-> value1, ok |-> ok]

ShouldHealRuleOnly(rule_fault, neural_fault, latch) ==
    rule_fault # None /\ ~latch
ShouldHealUnlatched(rule_fault, neural_fault, latch) ==
    rule_fault # None \/ neural_fault
\* if (rule_fault or neural_fault) and not healing_triggered
ShouldHeal(rule_fault, neural_fault, latch) ==
    (rule_fault # None \/ neural_fault) /\ ~latch

RecoveryDueUnlatched(latch, speed) == speed > RecoverySpeed
RecoveryDueAnySpeed(latch, speed) == latch
RecoveryDueCruise(latch, speed) == latch /\ speed > CruiseSpeed
\* if healing_triggered and speed > 5.0
RecoveryDue(latch, speed) == latch /\ speed > RecoverySpeed

(* The decision of one tick: the transmissions attempted, in order, and the
   latch afterwards.  ok1 tells whether the first sendto succeeds, ok2
   whether the fallback sendto of the HEAL branch does.  When the fallback
   raises too, the exception leaves the branch before the latch is set and
   is swallowed by the loop's except Exception. *)
Decide(rule_fault, neural_fault, latch, sample, ok1, ok2) ==
    IF ShouldHeal(rule_fault, neural_fault, latch)
    THEN IF ok1
         THEN [cmds |-> <<Cmd("HEAL", 1, TRUE)>>, latch |-> TRUE]
         ELSE [cmds |-> <<Cmd("HEAL", 1, FALSE),
                          Cmd("ACTIVATE_HEALING", 1, ok2)>>,
               latch |-> IF ok2 THEN TRUE ELSE latch]
    ELSE IF sample.status = HEALED
    THEN [cmds |-> <<>>, latch |-> latch]
    ELSE IF rule_fault = None /\ ~neural_fault
    THEN IF RecoveryDue(latch, sample.speed)
         THEN [cmds |-> <<Cmd("FAULT", 0, ok1)>>, latch |-> FALSE]
         ELSE [cmds |-> <<>>, latch |-> latch]
    ELSE [cmds |-> <<>>, latch |-> latch]

BrainTick(verdict, ok1, ok2) ==
    /\ variant = "brain"
    /\ pc = "monitor"
    /\ queue' = <<>>
    /\ IF queue = <<>>
       THEN \* latest_packet is None: sleep and continue
            /\ tick' = [NoTick EXCEPT !.kind = "idle"]
            /\ UNCHANGED brainVars
       ELSE IF ~Parsable(DrainLatest(queue))
       THEN \* json.loads raises, except Exception: pass
            /\ tick' = [NoTick EXCEPT !.kind = "dropped", !.drained = queue]
            /\ UNCHANGED brainVars
       ELSE LET sample == BrainSample(DrainLatest(queue))
                r == CheckSafetyRules(fault_counter, last_valid_speed,
                                      sample.speed, sample.vibration)
                n == DetectAnomaly(is_trained, anomaly_counter,
                                   sample.speed, sample.vibration, verdict)
                d == Decide(r.ret, n.ret, healing_triggered, sample, ok1, ok2)
            IN  /\ r.fault_counter <= MaxFault
                /\ n.anomaly_counter <= MaxAnomaly
                /\ fault_counter' = r.fault_counter
                /\ last_valid_speed' = r.last_valid_speed
                /\ anomaly_counter' = n.anomaly_counter
                /\ healing_triggered' = d.latch
                /\ tick' = [kind |-> "sample", drained |-> queue,
                            delivered |-> <<sample>>, rule_fault |-> r.ret,
                            neural_fault |-> n.ret, query |-> n.query,
                            cmds |-> d.cmds]
                /\ UNCHANGED is_trained
    /\ UNCHANGED <<variant, pc, dashVars, ruleHist, neuralHist, auxVars>>

\* the transmissions of the last tick that went out
SentOf(t, types) ==
    Len(SelectSeq(t.cmds, LAMBDA c : c.ok /\ c.type \in types))
AttemptsOf(t, types) ==
    Len(SelectSeq(t.cmds, LAMBDA c : c.type \in types))

HealTypes == {"HEAL", "ACTIVATE_HEALING"}

LoopPackets ==
    { Pkt(2, 60, "OK"), Pkt(2, 1, "OK"), Pkt(30, 1, "OK"),
      Pkt(250, 1, "OK"), Pkt(2, 100, "OK"), Pkt(2, 60, HEALED), Malformed,
      [vibration |-> 60, status |-> "OK"],
      [wheel_speed_fl |-> 250, vibration_level |-> 1] }

InitLoop ==
    /\ variant = "brain"
    /\ pc = "train"
    /\ Constructed

\* a tick of the loop, with the count of HEAL commands sent under the latch
LoopTick(verdict, ok1, ok2) ==
    /\ BrainTick(verdict, ok1, ok2)
    /\ healsInLatch' =
          IF ~healing_triggered'
          THEN 0
          ELSE Min(2, (IF healing_triggered THEN healsInLatch ELSE 0)
                      + SentOf(tick', HealTypes))
    /\ UNCHANGED <<rt, hist>>

NextLoop ==
    \/ \E p \in LoopPackets : Arrive(p, LoopQueue)
    \/ \E fitOK \in BOOLEAN : Train(fitOK)
    \/ \E verdict \in Verdicts, ok1 \in BOOLEAN, ok2 \in BOOLEAN :
          LoopTick(verdict, ok1, ok2)

SpecLoop == InitLoop /\ [][NextLoop]_vars

\* C1: no HEAL is sent on a tick that starts with the latch set, and at most
\* one HEAL is sent from the tick that sets the latch up to the tick that
\* clears it.
C1_AtMostOneHeal ==
    /\ [](healsInLatch <= 1)
    /\ [][healing_triggered => SentOf(tick', HealTypes) = 0]_vars

C1_Witness ==
    /\ healing_triggered
    /\ healsInLatch = 1
    /\ tick.kind = "sample"
    /\ tick.cmds = <<>>
    /\ (tick.rule_fault # None \/ tick.neural_fault)

----------------------------------------------------------------------------
(* The recovery round trip, followed through the loop *)

(* rt holds one record per round trip in progress: a tick with status HEALED
   taken with the latch set starts one (stage 1); each following tick with
   speed = 20 and no fault from either detector advances it, up to stage 6
   (five such ticks); any other tick ends it.  healedTick tells whether one
   of the following ticks carried status HEALED, attempts counts the
   FAULT(0.0,0.0) transmissions attempted on the following ticks. *)
RtAdvance(i, t) ==
    [stage |-> i.stage + 1,
     healedTick |-> i.healedTick \/ t.delivered[1].status = HEALED,
     attempts |-> i.attempts + AttemptsOf(t, {"FAULT"})]

RtQualifies(t) ==
    /\ t.delivered[1].speed = 200
    /\ t.rule_fault = None
    /\ ~t.neural_fault

RtNext(set, latchBefore, t) ==
    IF t.kind # "sample" THEN set
    ELSE { RtAdvance(i, t) : i \in { j \in set : j.stage < 6 /\ RtQualifies(t) } }
         \cup (IF latchBefore /\ t.delivered[1].status = HEALED
               THEN {[stage |-> 1, healedTick |-> FALSE, attempts |-> 0]}
               ELSE {})

RecoveryTick(verdict, ok1, ok2) ==
    /\ BrainTick(verdict, ok1, ok2)
    /\ rt' = RtNext(rt, healing_triggered, tick')
    /\ UNCHANGED <<healsInLatch, hist>>

RecoveryPackets ==
    { Pkt(2, 60, "OK"), Pkt(30, 1, "OK"), Pkt(200, 1, "OK"),
      Pkt(250, 1, "OK"), Pkt(2, 60, HEALED), Pkt(200, 1, HEALED) }

NextRecovery ==
    \/ \E p \in RecoveryPackets : Arrive(p, LoopQueue)
    \/ \E fitOK \in BOOLEAN : Train(fitOK)
    \/ \E verdict \in Verdicts, ok1 \in BOOLEAN, ok2 \in BOOLEAN :
          RecoveryTick(verdict, ok1, ok2)

SpecRecovery == InitLoop /\ [][NextRecovery]_vars

\* C2 as claimed: after a HEALED tick taken with the latch set, five ticks
\* with speed = 20 and no fault, whatever their status, end with the latch
\* clear and exactly one FAULT(0.0,0.0) transmission.
C2_Original ==
    \A i \in rt : i.stage = 6 => (~healing_triggered /\ i.attempts = 1)

\* C2 amended: after a HEALED tick taken with the latch set, ticks with
\* speed = 20, no fault and a status other than HEALED (VIRTUAL_SENSOR) clear
\* the latch on the first of them, with exactly one FAULT(0.0,0.0)
\* transmission attempted, and the latch is still clear and no further
\* FAULT has been attempted after the fifth; a tick whose status is HEALED
\* never triggers the recovery.
C2_RecoveryRoundTrip ==
    /\ \A i \in rt : (i.stage >= 2 /\ ~i.healedTick)
                        => (~healing_triggered /\ i.attempts = 1)
    /\ (tick.kind = "sample" /\ tick.delivered[1].status = HEALED)
           => AttemptsOf(tick, {"FAULT"}) = 0

C2_Witness ==
    \E i \in rt : /\ i.stage = 6
                  /\ ~i.healedTick
                  /\ i.attempts = 1
                  /\ ~healing_triggered

\* C10: after a failed fit is_trained stays false and detect_anomaly returns
\* false without touching anomaly_counter; a failed model query on a trained
\* detector returns false for that tick and leaves anomaly_counter as it
\* was; on such a tick no HEAL is transmitted unless the rule engine reports
\* a fault.
C10_DetectorFailOpen ==
    /\ [][(pc = "monitor" /\ ~is_trained) => ~is_trained']_vars
    /\ [][tick'.query \in {"untrained", "error"}
            => /\ anomaly_counter' = anomaly_counter
               /\ ~tick'.neural_fault
               /\ (tick'.rule_fault = None
                     => AttemptsOf(tick', HealTypes) = 0)]_vars
    /\ [](tick.query = "untrained" <=> (tick.kind = "sample" /\ ~is_trained))

C10_Witness ==
    /\ is_trained
    /\ tick.kind = "sample"
    /\ tick.query = "error"
    /\ anomaly_counter >= 10
    /\ ~tick.neural_fault
    /\ ~healing_triggered
    /\ tick.cmds = <<>>

----------------------------------------------------------------------------
(* dashboard.py: NeuroBrain.send_command and NeuroBrain.process_telemetry *)

\* packet['speed'] and packet['vibration'] do not raise KeyError
DashHasFields(packet) ==
    "speed" \in DOMAIN packet /\ "vibration" \in DOMAIN packet

DashSample(packet) ==
    [speed |-> packet.speed, vibration |-> packet.vibration,
     status |-> Get(packet, "status", "OK")]

DashParadox(sample) ==
    /\ sample.speed < StoppedSpeed
    /\ sample.vibration > DashParadoxVib
    /\ sample.status # HEALED

(* One call of process_telemetry.  The path and data_log buffers only feed
   the display and are left out.  A packet without 'speed' or 'vibration'
   raises KeyError at the data_log append, after latest_packet was stored;
   the method's except swallows it.  ok tells whether send_command's sendto
   succeeds; send_command swallows the failure. *)
DashTick(ok) ==
    /\ variant = "dash"
    /\ queue' = <<>>
    /\ IF queue = <<>>
       THEN /\ tick' = [NoTick EXCEPT !.kind = "idle"]
            /\ UNCHANGED dashVars
       ELSE IF ~Parsable(DrainLatest(queue))
       THEN /\ tick' = [NoTick EXCEPT !.kind = "dropped", !.drained = queue]
            /\ UNCHANGED dashVars
       ELSE IF ~DashHasFields(DrainLatest(queue))
       THEN /\ latest_packet' = DrainLatest(queue)
            /\ tick' = [NoTick EXCEPT !.kind = "aborted", !.drained = queue]
            /\ UNCHANGED <<alert_status, healing_active>>
       ELSE LET sample == DashSample(DrainLatest(queue))
            IN  /\ latest_packet' = DrainLatest(queue)
                /\ IF DashParadox(sample)
                   THEN /\ alert_status' = "CRITICAL: SIGNAL LOSS"
                        /\ healing_active' = TRUE
                        /\ tick' = [NoTick EXCEPT
                              !.kind = "sample", !.drained = queue,
                              !.delivered = <<sample>>,
                              !.rule_fault = "CRITICAL: SIGNAL LOSS",
                              !.cmds = IF healing_active THEN <<>>
                                       ELSE <<Cmd("HEAL", 1, ok)>>]
                   ELSE /\ alert_status' =
                              IF sample.status = HEALED
                              THEN "RECOVERED (VIRTUAL)" ELSE "System Normal"
                        /\ healing_active' =
                              IF sample.status = HEALED THEN TRUE
                              ELSE healing_active
                        /\ tick' = [NoTick EXCEPT
                              !.kind = "sample", !.drained = queue,
                              !.delivered = <<sample>>]
    /\ UNCHANGED <<variant, pc, brainVars, ruleHist, neuralHist, loopHist,
                   auxVars>>

----------------------------------------------------------------------------
(* Either variant polling a socket that holds several datagrams *)

DrainPackets == { Pkt(2, 60, "OK"), Pkt(200, 1, "OK"), Malformed }

InitEither ==
    /\ variant \in {"brain", "dash"}
    /\ pc = "train"
    /\ Constructed

PlainTick(verdict, ok1, ok2) ==
    /\ BrainTick(verdict, ok1, ok2)
    /\ UNCHANGED loopHist

NextDrain ==
    \/ \E p \in DrainPackets : Arrive(p, MaxQueue)
    \/ \E fitOK \in BOOLEAN : Train(fitOK)
    \/ \E verdict \in Verdicts, ok1 \in BOOLEAN, ok2 \in BOOLEAN :
          PlainTick(verdict, ok1, ok2)
    \/ \E ok \in BOOLEAN : DashTick(ok)

SpecDrain == InitEither /\ [][NextDrain]_vars

LastOf(q) == q[Len(q)]
HasSample(d) ==
    Parsable(d) /\ "speed" \in DOMAIN d /\ "vibration" \in DOMAIN d

\* C7: a poll that finds N >= 1 datagrams empties the queue and hands exactly
\* one sample to the detectors, the last datagram received (when that
\* datagram is a sample); nothing stays queued for a later tick; a poll that
\* finds the queue empty delivers nothing and changes no detector state.
C7_DrainLatest ==
    /\ [](tick.kind # "none" => queue = <<>>)
    /\ []((tick.kind # "none" /\ Len(tick.drained) >= 1
             /\ HasSample(LastOf(tick.drained)))
          => tick.delivered = <<LastOf(tick.drained)>>)
    /\ [](Len(tick.delivered) <= 1)
    /\ [](tick.kind = "idle" => tick.delivered = <<>>)
    /\ [][tick'.kind = "idle" => UNCHANGED <<brainVars, dashVars>>]_vars

C7_Witness ==
    /\ tick.kind = "sample"
    /\ Len(tick.drained) = 5
    /\ tick.drained[1] # tick.drained[5]
    /\ tick.drained[4] # tick.drained[5]
    /\ tick.delivered = <<tick.drained[5]>>
    /\ queue = <<>>

LastParsable(q) ==
    LET ix == { k \in 1..Len(q) : Parsable(q[k]) }
    IN  q[CHOOSE k \in ix : \A m \in ix : m <= k]

\* C8: when a poll drains several datagrams of which some are unparsable,
\* the sample delivered is the last parsable datagram of that poll, and no
\* malformed datagram is delivered.
C8_MalformedSkipped ==
    /\ (tick.kind # "none" /\ \E k \in 1..Len(tick.drained) :
                                   Parsable(tick.drained[k]))
         => tick.delivered = <<LastParsable(tick.drained)>>
    /\ \A k \in 1..Len(tick.delivered) : tick.delivered[k] # Malformed

----------------------------------------------------------------------------
(* Either variant receiving packets that lack fields *)

FieldPackets ==
    { Pkt(2, 60, "OK"),
      [vibration |-> 60, status |-> "OK"],
      [speed |-> 2, status |-> "OK"],
      [speed |-> 2, vibration |-> 60],
      [wheel_speed_fl |-> 2, vibration_level |-> 60, status |-> "OK"],
      [status |-> HEALED] }

NextFields ==
    \/ \E p \in FieldPackets : Arrive(p, LoopQueue)
    \/ \E fitOK \in BOOLEAN : Train(fitOK)
    \/ \E verdict \in Verdicts, ok1 \in BOOLEAN, ok2 \in BOOLEAN :
          PlainTick(verdict, ok1, ok2)
    \/ \E ok \in BOOLEAN : DashTick(ok)

SpecFields == InitEither /\ [][NextFields]_vars

\* C9: in both variants a parsed packet is processed as the sample whose
\* speed and vibration are the packet's values under either alias, or 0 when
\* absent, and whose status is the packet's, or "UNKNOWN" when absent; the
\* tick's fault decision is made on that sample.
C9_MissingFields ==
    (tick.kind # "none" /\ Len(tick.drained) >= 1
       /\ Parsable(LastOf(tick.drained)))
    => LET p == LastOf(tick.drained)
       IN  tick.delivered =
             << [speed |-> IF "speed" \in DOMAIN p THEN p.speed
                           ELSE IF "wheel_speed_fl" \in DOMAIN p
                           THEN p.wheel_speed_fl ELSE 0,
                 vibration |-> IF "vibration" \in DOMAIN p THEN p.vibration
                               ELSE IF "vibration_level" \in DOMAIN p
                               THEN p.vibration_level ELSE 0,
                 status |-> IF "status" \in DOMAIN p THEN p.status
                            ELSE "UNKNOWN"] >>

----------------------------------------------------------------------------
(* Command egress of the monitoring loop *)

\* C11: a tick's command decision makes at most one transmission attempt,
\* and no transmission is attempted after one that failed.
C11_NoRetry ==
    /\ Len(tick.cmds) <= 1
    /\ \A k \in 1..Len(tick.cmds) :
          ~tick.cmds[k].ok => k = Len(tick.cmds)

\* the command whose every transmission failed on tick t, or "none"
FailedDecision(t) ==
    IF t.cmds # <<>> /\ \A k \in 1..Len(t.cmds) : ~t.cmds[k].ok
    THEN (IF t.cmds[1].type = "FAULT" THEN "FAULT" ELSE "HEAL")
    ELSE "none"

\* a tick of the loop, remembering a command that failed to go out
ResendTick(verdict, ok1, ok2) ==
    /\ BrainTick(verdict, ok1, ok2)
    /\ hist' = IF tick'.kind = "sample"
               THEN [hist EXCEPT !.lastFail = FailedDecision(tick')]
               ELSE hist
    /\ UNCHANGED <<healsInLatch, rt>>

NextResend ==
    \/ \E p \in LoopPackets : Arrive(p, LoopQueue)
    \/ \E fitOK \in BOOLEAN : Train(fitOK)
    \/ \E verdict \in Verdicts, ok1 \in BOOLEAN, ok2 \in BOOLEAN :
          ResendTick(verdict, ok1, ok2)

SpecResend == InitLoop /\ [][NextResend]_vars

FaultReported(t) == t.rule_fault # None \/ t.neural_fault

RecoveryShown(t) ==
    /\ ~FaultReported(t)
    /\ t.delivered[1].status # HEALED
    /\ t.delivered[1].speed > 50

\* C12: when every transmission of a command failed on a tick, the next tick
\* sends the command again if its condition still holds: HEAL if a fault is
\* still reported, FAULT(0.0,0.0) if the sample still shows recovery.
C12_ResendAfterFailure ==
    [][tick'.kind = "sample" =>
         /\ (hist.lastFail = "HEAL" /\ FaultReported(tick'))
               => AttemptsOf(tick', HealTypes) >= 1
         /\ (hist.lastFail = "FAULT" /\ RecoveryShown(tick'))
               => AttemptsOf(tick', {"FAULT"}) >= 1]_vars

----------------------------------------------------------------------------
(* start_neurodrive: Phase 1 calibration and Phase 2 knowledge injection *)

(* The calibration loop runs while less than 10 s have passed.  Every pass
   ends in a 10 ms sleep, so the loop makes a bounded number of passes;
   elapsed counts them and the clock may run out after any pass.  The inner
   loop is followed one recvfrom at a time, with datagrams arriving in
   between. *)

\* training_data.extend([[0.0, 0.001], [1.0, 0.002], [5.0, 0.005], [0.0, 0.0]])
SyntheticSafe == << <<0, 1>>, <<10, 2>>, <<50, 5>>, <<0, 0>> >>
\* training_data.extend([[10, 0.02], [50, 0.05]])
FallbackPairs == << <<100, 20>>, <<500, 50>> >>

\* if len(training_data) < 5, evaluated after the synthetic points were added
NeedsFallback(td) == Len(td) < MinTrainingSet

InjectKnowledge(td) ==
    LET withSafe == td \o SyntheticSafe
    IN  IF NeedsFallback(withSafe) THEN withSafe \o FallbackPairs
        ELSE withSafe

\* if current_speed > 1.0
RealSample(speed) == speed > StoppedSpeed

\* while time.time() - start_time < 10: latest_data = None
CalibEnter ==
    /\ variant = "brain"
    /\ pc = "calib"
    /\ elapsed < CalibPasses
    /\ latest_data' = <<>>
    /\ pc' = "drain"
    /\ UNCHANGED <<variant, queue, brainVars, dashVars, tick, ruleHist,
                   neuralHist, loopHist, training_data, elapsed, threadVars>>

\* the 10 s are up when the loop condition is tested
CalibExit ==
    /\ variant = "brain"
    /\ pc = "calib"
    /\ elapsed >= 1
    /\ pc' = "inject"
    /\ UNCHANGED <<variant, queue, brainVars, dashVars, tick, ruleHist,
                   neuralHist, loopHist, calibVars, threadVars>>

\* data, _ = sock_listen.recvfrom(1024); latest_data = data
CalibRecv ==
    /\ variant = "brain"
    /\ pc = "drain"
    /\ queue # <<>>
    /\ latest_data' = <<Head(queue)>>
    /\ queue' = Tail(queue)
    /\ UNCHANGED <<variant, pc, brainVars, dashVars, tick, ruleHist,
                   neuralHist, loopHist, training_data, elapsed, threadVars>>

\* BlockingIOError ends the drain; the latest datagram is parsed and kept as
\* a calibration pair when its speed is above 1.0; then sleep(0.01)
CalibProcess ==
    /\ variant = "brain"
    /\ pc = "drain"
    /\ queue = <<>>
    /\ training_data' =
          IF latest_data # <<>> /\ Parsable(latest_data[1])
             /\ RealSample(BrainSample(latest_data[1]).speed)
          THEN Append(training_data, <<BrainSample(latest_data[1]).speed,
                                       BrainSample(latest_data[1]).vibration>>)
          ELSE training_data
    /\ elapsed' = elapsed + 1
    /\ pc' = "calib"
    /\ UNCHANGED <<variant, queue, brainVars, dashVars, tick, ruleHist,
                   neuralHist, loopHist, latest_data, threadVars>>

\* Phase 2: the synthetic safe points, then the fallback pairs
Inject ==
    /\ variant = "brain"
    /\ pc = "inject"
    /\ training_data' = InjectKnowledge(training_data)
    /\ pc' = "train"
    /\ UNCHANGED <<variant, queue, brainVars, dashVars, tick, ruleHist,
                   neuralHist, loopHist, latest_data, elapsed, threadVars>>

CalibPackets ==
    { Pkt(250, 1, "OK"), Pkt(10, 1, "OK"), Malformed,
      [wheel_speed_fl |-> 30, vibration_level |-> 1] }

InitCalib ==
    /\ variant = "brain"
    /\ pc = "calib"
    /\ Constructed

\* the steps of the program up to the start of the monitoring loop
ProgramStep ==
    \/ CalibEnter
    \/ CalibExit
    \/ CalibRecv
    \/ CalibProcess
    \/ Inject
    \/ \E fitOK \in BOOLEAN : Train(fitOK)

NextCalib ==
    \/ \E p \in CalibPackets : Arrive(p, CalibQueue)
    \/ ProgramStep

SpecCalib == InitCalib /\ [][NextCalib]_vars

\* the process is never suspended for good: it takes a step whenever it can
SpecCalibFair == SpecCalib /\ WF_vars(ProgramStep)

IsSuffix(suf, seq) ==
    /\ Len(suf) <= Len(seq)
    /\ SubSeq(seq, Len(seq) - Len(suf) + 1, Len(seq)) = suf

\* the number of real samples in a calibration set that went through Phase 2
RealCount(td) ==
    Len(td) - Len(SyntheticSafe)
       - (IF IsSuffix(FallbackPairs, td) THEN Len(FallbackPairs) ELSE 0)

\* C13: once Phase 2 is done, the calibration set is the real samples, all
\* of speed > 1.0, then the four synthetic safe points, then the fallback
\* pairs (10,0.02) and (50,0.05) exactly when fewer than 5 real samples were
\* gathered.
C13_CalibrationFallback ==
    pc \in {"train", "monitor"} =>
        LET n == RealCount(training_data)
        IN  /\ n >= 0
            /\ \A k \in 1..n : training_data[k][1] > 10
            /\ SubSeq(training_data, n + 1, n + 4) = SyntheticSafe
            /\ (IsSuffix(FallbackPairs, training_data) <=> n < 5)

\* C14: whatever the arrivals, every drain of the calibration loop ends and
\* the monitoring loop is eventually reached.
C14_CalibrationTerminates ==
    /\ (pc = "drain") ~> (pc = "calib")
    /\ <>(pc = "monitor")

----------------------------------------------------------------------------
(* The way back from healing: what a tick that clears the latch looks like *)

ResetPackets ==
    { Pkt(2, 60, "OK"), Pkt(2, 1, "OK"), Pkt(30, 1, "OK"), Pkt(250, 1, "OK"),
      Pkt(250, 1, HEALED) }

(* hist.healedSince: a sample with status HEALED was processed since the
   latest tick that attempted a HEAL.  hist.goodRun: the number of sample
   ticks, up to and including the latest one, that came in a row with no
   fault reported and speed > 5.0 (counted up to 2). *)
HealedSinceNext(h, t) ==
    IF AttemptsOf(t, HealTypes) >= 1 THEN FALSE
    ELSE h \/ t.delivered[1].status = HEALED

GoodRunNext(g, t) ==
    IF ~FaultReported(t) /\ t.delivered[1].speed > 50 THEN Min(g + 1, 2)
    ELSE 0

ResetTick(verdict, ok1, ok2) ==
    /\ BrainTick(verdict, ok1, ok2)
    /\ hist' = IF tick'.kind = "sample"
               THEN [hist EXCEPT !.healedSince = HealedSinceNext(@, tick'),
                                 !.goodRun = GoodRunNext(@, tick')]
               ELSE hist
    /\ UNCHANGED <<healsInLatch, rt>>

NextReset ==
    \/ \E p \in ResetPackets : Arrive(p, LoopQueue)
    \/ \E fitOK \in BOOLEAN : Train(fitOK)
    \/ \E verdict \in Verdicts, ok1 \in BOOLEAN, ok2 \in BOOLEAN :
          ResetTick(verdict, ok1, ok2)

SpecReset == InitLoop /\ [][NextReset]_vars

\* C15 as stated: every FAULT(0.0,0.0) is preceded, since the most recent
\* HEAL, by at least one tick with status HEALED (VIRTUAL_SENSOR).
C15_Original ==
    (tick.kind = "sample" /\ AttemptsOf(tick, {"FAULT"}) >= 1)
        => hist.healedSince

\* C15: FAULT(0.0,0.0) is sent only on a tick taken with the latch set, on
\* which no detector reports a fault, the status is not HEALED and the speed
\* is above 5.0; that tick sends no HEAL.  No HEALED sample is required.
C15_RecoveryWithoutHealed ==
    [][AttemptsOf(tick', {"FAULT"}) >= 1 =>
          /\ healing_triggered
          /\ RecoveryShown(tick')
          /\ AttemptsOf(tick', HealTypes) = 0]_vars

C15_Witness ==
    /\ tick.kind = "sample"
    /\ AttemptsOf(tick, {"FAULT"}) = 1
    /\ ~healing_triggered
    /\ ~hist.healedSince

\* C16 as stated: the latch is cleared and FAULT(0.0,0.0) sent only after
\* more than one consecutive tick with speed > 5.0 and no fault.
C16_Original ==
    (tick.kind = "sample" /\ AttemptsOf(tick, {"FAULT"}) >= 1)
        => hist.goodRun >= 2

\* C16: a tick clears the latch exactly when the latch is set and the tick
\* shows no fault, a status other than HEALED and speed > 5.0; one such tick
\* is enough, and a fault-free tick with speed <= 5.0 leaves the latch set.
C16_SingleTickReset ==
    [][tick'.kind = "sample" =>
          ((healing_triggered /\ ~healing_triggered')
              <=> (healing_triggered /\ RecoveryShown(tick')))]_vars

C16_Witness ==
    /\ tick.kind = "sample"
    /\ AttemptsOf(tick, {"FAULT"}) = 1
    /\ ~healing_triggered
    /\ hist.goodRun = 1

----------------------------------------------------------------------------
(* dashboard.py: the telemetry thread next to the button handlers *)

(* run_telemetry calls process_telemetry on a daemon thread; the button
   handlers run on the script thread; nothing synchronizes the two.  The
   telemetry thread is followed statement by statement where it touches
   healing_active: the read of line 101, the send of line 102, the write of
   line 103.  A button handler is its send followed by its write.
   hist.rearmed: a button handler has written healing_active = False and
   the telemetry thread has neither sent a HEAL nor taken its HEALED branch
   since.  hist.heals: the HEAL transmissions attempted so far (counted up
   to 2).  hist.pressed: a button was pressed.  hist.calm: alert_status
   went back to "System Normal" after the latest HEAL. *)

ReadsLatchIgnored ==
    /\ queue # <<>>
    /\ Parsable(DrainLatest(queue))
    /\ DashHasFields(DrainLatest(queue))
    /\ DashParadox(DashSample(DrainLatest(queue)))

\* lines 99-101: the paradox branch is taken and 'not self.healing_active'
\* is read as true
ReadsLatchClear ==
    /\ queue # <<>>
    /\ Parsable(DrainLatest(queue))
    /\ DashHasFields(DrainLatest(queue))
    /\ DashParadox(DashSample(DrainLatest(queue)))
    /\ ~healing_active

\* process_telemetry up to the point where it is about to send HEAL, or to
\* its end on every other path
TelePoll ==
    /\ variant = "dash"
    /\ tpc = "poll"
    /\ queue' = <<>>
    /\ IF queue = <<>>
       THEN /\ tick' = [NoTick EXCEPT !.kind = "idle"]
            /\ UNCHANGED <<dashVars, tpc, hist>>
       ELSE IF ~Parsable(DrainLatest(queue))
       THEN /\ tick' = [NoTick EXCEPT !.kind = "dropped", !.drained = queue]
            /\ UNCHANGED <<dashVars, tpc, hist>>
       ELSE IF ~DashHasFields(DrainLatest(queue))
       THEN /\ latest_packet' = DrainLatest(queue)
            /\ tick' = [NoTick EXCEPT !.kind = "aborted", !.drained = queue]
            /\ UNCHANGED <<alert_status, healing_active, tpc, hist>>
       ELSE LET sample == DashSample(DrainLatest(queue))
            IN  /\ latest_packet' = DrainLatest(queue)
                /\ tick' = [NoTick EXCEPT
                      !.kind = "sample", !.drained = queue,
                      !.delivered = <<sample>>,
                      !.rule_fault = IF DashParadox(sample)
                                     THEN "CRITICAL: SIGNAL LOSS" ELSE None]
                /\ alert_status' =
                      IF DashParadox(sample) THEN "CRITICAL: SIGNAL LOSS"
                      ELSE IF sample.status = HEALED
                      THEN "RECOVERED (VIRTUAL)" ELSE "System Normal"
                /\ tpc' = IF ReadsLatchClear THEN "send" ELSE "poll"
                /\ healing_active' =
                      IF ~DashParadox(sample) /\ sample.status = HEALED
                      THEN TRUE ELSE healing_active
                /\ hist' =
                      IF ~DashParadox(sample) /\ sample.status = HEALED
                      THEN [hist EXCEPT !.rearmed = FALSE]
                      ELSE IF ~DashParadox(sample) /\ hist.heals >= 1
                      THEN [hist EXCEPT !.calm = TRUE]
                      ELSE hist
    /\ UNCHANGED <<variant, pc, brainVars, ruleHist, neuralHist,
                   healsInLatch, rt, calibVars, bpc>>

\* line 102: self.send_command("HEAL", 1.0)
TeleSend(ok) ==
    /\ variant = "dash"
    /\ tpc = "send"
    /\ tick' = [NoTick EXCEPT !.kind = "send",
                              !.cmds = <<Cmd("HEAL", 1, ok)>>]
    /\ hist' = [hist EXCEPT !.rearmed = FALSE, !.calm = FALSE,
                             !.heals = Min(@ + 1, 2)]
    /\ tpc' = "set"
    /\ UNCHANGED <<variant, pc, queue, brainVars, dashVars, ruleHist,
                   neuralHist, healsInLatch, rt, calibVars, bpc>>

\* line 103: self.healing_active = True
TeleSet ==
    /\ variant = "dash"
    /\ tpc = "set"
    /\ healing_active' = TRUE
    /\ tick' = [NoTick EXCEPT !.kind = "set"]
    /\ tpc' = "poll"
    /\ UNCHANGED <<variant, pc, queue, brainVars, latest_packet,
                   alert_status, ruleHist, neuralHist, loopHist, calibVars,
                   bpc>>

\* a button is pressed: brain.send_command("FAULT", 1.0) for INJECT SIGNAL
\* LOSS, brain.send_command("FAULT", 0.0) for RESET SYSTEM
ButtonSend(val, ok) ==
    /\ variant = "dash"
    /\ bpc = "idle"
    /\ tick' = [NoTick EXCEPT !.kind = "button",
                              !.cmds = <<Cmd("FAULT", val, ok)>>]
    /\ hist' = [hist EXCEPT !.pressed = TRUE]
    /\ bpc' = "clear"
    /\ UNCHANGED <<variant, pc, queue, brainVars, dashVars, ruleHist,
                   neuralHist, healsInLatch, rt, calibVars, tpc>>

\* the handler's second statement: brain.healing_active = False
ButtonClear ==
    /\ variant = "dash"
    /\ bpc = "clear"
    /\ healing_active' = FALSE
    /\ hist' = [hist EXCEPT !.rearmed = TRUE]
    /\ tick' = [NoTick EXCEPT !.kind = "clear"]
    /\ bpc' = "idle"
    /\ UNCHANGED <<variant, pc, queue, brainVars, latest_packet,
                   alert_status, ruleHist, neuralHist, healsInLatch, rt,
                   calibVars, tpc>>

ThreadPackets == { Pkt(2, 60, "OK"), Pkt(200, 1, "OK"), Pkt(2, 60, HEALED) }

InitThreads ==
    /\ variant = "dash"
    /\ pc = "train"
    /\ Constructed

NextThreads ==
    \/ \E p \in ThreadPackets : Arrive(p, LoopQueue)
    \/ TelePoll
    \/ \E ok \in BOOLEAN : TeleSend(ok)
    \/ TeleSet
    \/ \E val \in {0, 1}, ok \in BOOLEAN : ButtonSend(val, ok)
    \/ ButtonClear

SpecThreads == InitThreads /\ [][NextThreads]_vars

\* C17: the accesses to healing_active are serialized: once a button
\* handler has written healing_active = False, the latch stays clear until
\* the telemetry thread next sends a HEAL (or sets it on a HEALED sample).
C17_SerializedLatch == hist.rearmed => ~healing_active

----------------------------------------------------------------------------
(* Fault episodes: maximal runs of consecutive sample ticks that report a
   fault *)

(* hist.episode describes the episode in progress: "none" when the latest
   sample tick reported no fault, "zero" when no HEAL went out in it so far,
   "one" when exactly one did, "many" when more than one did, "failed" when
   one of its transmissions failed.  hist.closed is the description of the
   episode that the latest sample tick ended, "none" when it ended none. *)
EpisodeAdd(e, t) ==
    IF e = "failed" \/ \E k \in 1..Len(t.cmds) : ~t.cmds[k].ok THEN "failed"
    ELSE IF SentOf(t, {"HEAL"}) = 0 THEN e
    ELSE IF e = "zero" THEN "one"
    ELSE "many"

EpisodeNext(h, t) ==
    IF FaultReported(t)
    THEN [h EXCEPT !.episode = EpisodeAdd(IF @ = "none" THEN "zero" ELSE @, t),
                   !.closed = "none"]
    ELSE [h EXCEPT !.episode = "none", !.closed = h.episode]

EpisodeTick(verdict, ok1, ok2) ==
    /\ BrainTick(verdict, ok1, ok2)
    /\ hist' = IF tick'.kind = "sample" THEN EpisodeNext(hist, tick')
               ELSE hist
    /\ UNCHANGED <<healsInLatch, rt>>

NextEpisodes ==
    \/ \E p \in ResetPackets : Arrive(p, LoopQueue)
    \/ \E fitOK \in BOOLEAN : Train(fitOK)
    \/ \E verdict \in Verdicts, ok1 \in BOOLEAN, ok2 \in BOOLEAN :
          EpisodeTick(verdict, ok1, ok2)

SpecEpisodes == InitLoop /\ [][NextEpisodes]_vars

\* C18 as stated, for the episodes in which no transmission failed: every
\* fault episode has exactly one HEAL sent in it, never zero.
C18_Original == hist.closed \in {"none", "one", "failed"}

\* C18: on a tick that reports a fault with the latch clear, HEAL(1.0,0.0)
\* is attempted once, the raw ACTIVATE_HEALING once more exactly when that
\* HEAL failed, and the latch is set exactly when one of the two went out;
\* on a tick that reports a fault with the latch set nothing is sent and
\* the latch stays set; so no fault episode has more than one HEAL sent.
C18_HealPerLatchedEpisode ==
    [][(tick'.kind = "sample" /\ FaultReported(tick')) =>
          /\ ~healing_triggered =>
                /\ AttemptsOf(tick', {"HEAL"}) = 1
                /\ tick'.cmds[1] = Cmd("HEAL", 1, tick'.cmds[1].ok)
                /\ AttemptsOf(tick', {"ACTIVATE_HEALING"})
                      = 1 - SentOf(tick', {"HEAL"})
                /\ healing_triggered' <=> SentOf(tick', HealTypes) >= 1
          /\ healing_triggered =>
                /\ tick'.cmds = <<>>
                /\ healing_triggered'
          /\ hist'.episode # "many"]_vars

C18_Witness ==
    /\ tick.kind = "sample"
    /\ hist.closed = "zero"
    /\ healing_triggered

----------------------------------------------------------------------------
(* The two hysteresis counters over the ticks of the monitoring loop *)

CounterPackets ==
    { Pkt(2, 60, "OK"), Pkt(2, 1, "OK"), Pkt(10, 60, "OK"), Pkt(30, 1, "OK"),
      Pkt(250, 1, "OK") }

\* hist.slowRun: the number of sample ticks, up to and including the latest
\* one, that came in a row with speed <= 1.0 (counted up to 4)
SlowRunNext(n, t) ==
    IF t.delivered[1].speed <= 10 THEN Min(n + 1, 4) ELSE 0

CounterTick(verdict, ok1, ok2) ==
    /\ BrainTick(verdict, ok1, ok2)
    /\ hist' = IF tick'.kind = "sample"
               THEN [hist EXCEPT !.slowRun = SlowRunNext(@, tick')]
               ELSE hist
    /\ UNCHANGED <<healsInLatch, rt>>

NextCounters ==
    \/ \E p \in CounterPackets : Arrive(p, LoopQueue)
    \/ \E fitOK \in BOOLEAN : Train(fitOK)
    \/ \E verdict \in Verdicts, ok1 \in BOOLEAN, ok2 \in BOOLEAN :
          CounterTick(verdict, ok1, ok2)

SpecCounters == InitLoop /\ [][NextCounters]_vars

\* C19: fault_counter and anomaly_counter are never negative.  A tick with
\* speed > 1.0 sets last_valid_speed to that speed and fault_counter to 0; a
\* tick with speed <= 1.0 leaves last_valid_speed alone and adds exactly 1
\* to fault_counter when the paradox or the impossible-deceleration rule
\* fired, and sets it to 0 otherwise.  CRITICAL is returned only on a tick
\* with speed < 1.0 whose 3 preceding ticks all had speed <= 1.0.
C19_CounterDiscipline ==
    [][/\ fault_counter >= 0 /\ fault_counter' >= 0
       /\ anomaly_counter >= 0 /\ anomaly_counter' >= 0
       /\ tick'.kind = "sample" =>
             LET speed == tick'.delivered[1].speed
                 fired == \/ Paradox(speed, tick'.delivered[1].vibration)
                          \/ ImpossibleStop(last_valid_speed, speed)
             IN  /\ speed > 10 =>
                       /\ last_valid_speed' = speed
                       /\ fault_counter' = 0
                 /\ speed <= 10 =>
                       /\ last_valid_speed' = last_valid_speed
                       /\ fault_counter' = IF fired THEN fault_counter + 1
                                           ELSE 0
                 /\ tick'.rule_fault = CRITICAL =>
                       /\ speed < 10
                       /\ hist'.slowRun >= 4]_vars

C19_Witness ==
    /\ tick.kind = "sample"
    /\ tick.rule_fault = CRITICAL
    /\ tick.delivered[1].speed < 10
    /\ hist.slowRun = 4
    /\ fault_counter = 4

----------------------------------------------------------------------------
(* The order of the commands that go out *)

\* hist.lastEmitted: the kind of the latest command that went out, "HEAL"
\* for HEAL(1.0,0.0) and for the raw ACTIVATE_HEALING, "FAULT" for
\* FAULT(0.0,0.0), "none" before the first
LastEmittedNext(e, t) ==
    IF SentOf(t, HealTypes) >= 1 THEN "HEAL"
    ELSE IF SentOf(t, {"FAULT"}) >= 1 THEN "FAULT"
    ELSE e

AlternationTick(verdict, ok1, ok2) ==
    /\ BrainTick(verdict, ok1, ok2)
    /\ hist' = IF tick'.kind = "sample"
               THEN [hist EXCEPT !.lastEmitted = LastEmittedNext(@, tick')]
               ELSE hist
    /\ UNCHANGED <<healsInLatch, rt>>

NextAlternation ==
    \/ \E p \in ResetPackets : Arrive(p, LoopQueue)
    \/ \E fitOK \in BOOLEAN : Train(fitOK)
    \/ \E verdict \in Verdicts, ok1 \in BOOLEAN, ok2 \in BOOLEAN :
          AlternationTick(verdict, ok1, ok2)

SpecAlternation == InitLoop /\ [][NextAlternation]_vars

\* C20: the commands that go out alternate between HEAL and FAULT(0.0,0.0),
\* starting with HEAL; a tick emits at most one command; FAULT(0.0,0.0) is
\* attempted only on a tick with the latch set, no fault, a status other
\* than HEALED and speed > 5.0; a tick with no fault and the latch clear
\* sends nothing and leaves the latch clear.
C20_CommandAlternation ==
    [][tick'.kind = "sample" =>
          /\ SentOf(tick', HealTypes \cup {"FAULT"}) <= 1
          /\ SentOf(tick', HealTypes) = 1 => hist.lastEmitted # "HEAL"
          /\ SentOf(tick', {"FAULT"}) = 1 => hist.lastEmitted = "HEAL"
          /\ AttemptsOf(tick', {"FAULT"}) >= 1 =>
                healing_triggered /\ RecoveryShown(tick')
          /\ (~FaultReported(tick') /\ ~healing_triggered) =>
                tick'.cmds = <<>> /\ ~healing_triggered']_vars


\* the steps of the telemetry thread, told by what the latest step was
TelemetryKinds == {"idle", "dropped", "aborted", "sample", "send", "set"}

\* C21: process_telemetry never clears healing_active and never sends
\* FAULT; it sets healing_active only after sending HEAL from a clear latch
\* on a paradox, or on a sample with status HEALED.  While no button is
\* pressed at most one HEAL is sent over the whole run, and a paradox sample
\* that comes after that HEAL sets alert_status to CRITICAL and starts no
\* HEAL.
C21_DashboardLatchFrame ==
    [][/\ tick'.kind \in TelemetryKinds =>
             /\ healing_active => healing_active'
             /\ AttemptsOf(tick', {"FAULT"}) = 0
             /\ (~healing_active /\ healing_active') =>
                   \/ tick'.kind = "set" /\ tpc = "set"
                   \/ tick'.kind = "sample"
                         /\ tick'.delivered[1].status = HEALED
       /\ ~hist'.pressed => hist'.heals <= 1
       /\ (/\ ~hist.pressed /\ hist.heals >= 1 /\ tpc = "poll"
           /\ tick'.kind = "sample" /\ DashParadox(tick'.delivered[1])) =>
             /\ alert_status' = "CRITICAL: SIGNAL LOSS"
             /\ tpc' = "poll"
             /\ healing_active']_vars

C21_Witness ==
    /\ ~hist.pressed
    /\ hist.heals = 1
    /\ hist.calm
    /\ tick.kind = "sample"
    /\ DashParadox(tick.delivered[1])
    /\ alert_status = "CRITICAL: SIGNAL LOSS"
    /\ tpc = "poll"
    /\ healing_active

====
